---------------------------- MODULE Spec2Model ----------------------------
(***************************************************************************)
(* A model of src/src/solver.rs: the bitboard solver for the 4-ring,      *)
(* 12-angle board.  Pure functions of the source (masked rotation, the    *)
(* zig-zag enumerator, the ring and row generators, the terminal          *)
(* evaluator) are operators computed on integers the way the source       *)
(* computes them on u16 values; the search (find_solution,                *)
(* find_solution_at_turn, iterate_movements) is a state machine with an   *)
(* explicit call stack, one action per loop step or callback return.      *)
(***************************************************************************)
EXTENDS Integers, Sequences, FiniteSets, TLC

(***************************************************************************)
(* Program constants.                                                      *)
(***************************************************************************)
NUM_RINGS == 4
NUM_ANGLES == 12
MAX_TURNS == 4
\* The width of the u16 the board is stored in, and its largest value.
U16_BITS == 16
U16_MAX == 65535

(***************************************************************************)
(* Bounds of the model.                                                    *)
(***************************************************************************)
\* The largest shift amount the rotation specification passes.
MaxShift == 12
\* The number of times the zig-zag specification calls next.
MaxCalls == 12
\* The largest max_turns the search specification passes to find_solution.
MaxTurnsBound == 2
\* The largest turn find_solution_at_turn is called with on its own.
MaxAtTurn == 1

(***************************************************************************)
(* Option values.                                                          *)
(***************************************************************************)
None == [some |-> FALSE]
Some(v) == [some |-> TRUE, value |-> v]

(***************************************************************************)
(* u16 arithmetic.                                                         *)
(***************************************************************************)
Pow2(n) == 2 ^ n

\* x << n on a u16: the bits shifted past bit 15 are lost.
Shl(x, n) == (x * Pow2(n)) % Pow2(U16_BITS)

\* x >> n
Shr(x, n) == x \div Pow2(n)

RECURSIVE BitAnd(_, _)
BitAnd(x, y) ==
    IF x = 0 \/ y = 0 THEN 0
    ELSE (x % 2) * (y % 2) + 2 * BitAnd(x \div 2, y \div 2)

\* x | y
BitOr(x, y) == x + y - BitAnd(x, y)

\* !x on a u16
BitNot(x) == U16_MAX - x

\* u16::count_ones
RECURSIVE count_ones(_)
count_ones(x) == IF x = 0 THEN 0 ELSE (x % 2) + count_ones(x \div 2)

\* u16::trailing_zeros (16 for 0)
RECURSIVE trailing_zeros(_)
trailing_zeros(x) ==
    IF x = 0 THEN U16_BITS
    ELSE IF x % 2 = 1 THEN 0 ELSE 1 + trailing_zeros(x \div 2)

\* u16::trailing_ones
RECURSIVE trailing_ones(_)
trailing_ones(x) == IF x % 2 = 0 THEN 0 ELSE 1 + trailing_ones(x \div 2)

\* Whether bit i of x is set.
TestBit(x, i) == (x \div Pow2(i)) % 2 = 1

\* (cond) as u16
AsU16(cond) == IF cond THEN 1 ELSE 0

(***************************************************************************)
(* MaskedInt: rotation of the low NUM_BITS bits.  bits is Self::NUM_BITS:  *)
(* 12 for Subring, 8 for Row.                                              *)
(***************************************************************************)
SubringBits == NUM_ANGLES
RowBits == NUM_RINGS * 2

\* A faulty variant of rotate_left: the result is not masked to the low bits.
rotate_left_NoMask(x, n0, bits) ==
    LET n == n0 % bits
        m == Shl(Pow2(n) - 1, bits - n)
        y == Shr(BitAnd(x, m), bits - n)
    IN  BitOr(Shl(x, n), y)

rotate_left(x, n0, bits) ==
    LET n == n0 % bits
        m == Shl(Pow2(n) - 1, bits - n)
        y == Shr(BitAnd(x, m), bits - n)
    IN  BitAnd(BitOr(Shl(x, n), y), Pow2(bits) - 1)

\* A faulty variant of rotate_right: the bits shifted out are lost.
rotate_right_NoWrap(x, n0, bits) == Shr(x, n0 % bits)

\* A faulty variant of rotate_right: the mask of the low n bits is one bit off.
rotate_right_BadMask(x, n0, bits) ==
    LET n == n0 % bits
        m == Pow2(n)
        y == Shl(BitAnd(x, m), bits - n)
    IN  BitOr(Shr(x, n), y)

rotate_right(x, n0, bits) ==
    LET n == n0 % bits
        m == Pow2(n) - 1
        y == Shl(BitAnd(x, m), bits - n)
    IN  BitOr(Shr(x, n), y)

(***************************************************************************)
(* ZigZagBits: [data, amount] over a MaskedInt of the given width.         *)
(***************************************************************************)
ZigZagBits_new(data) == [data |-> data, amount |-> 0]

\* A faulty variant of ZigZagBits_next: the data is rotated by the new amount, not by
\* its difference from the old one.
ZigZagBits_next_NoDiff(self, bits) ==
    LET new_amount == (-self.amount) + AsU16(self.amount <= 0)
        data == IF new_amount > 0
                THEN rotate_left(self.data, new_amount, bits)
                ELSE rotate_right(self.data, -new_amount, bits)
    IN  [iter |-> [data |-> data, amount |-> new_amount],
         item |-> <<data, new_amount>>]

\* A faulty variant of ZigZagBits_next: the amounts go -1, 1, -2, 2, ...
ZigZagBits_next_NegativeFirst(self, bits) ==
    LET new_amount == (-self.amount) - AsU16(self.amount >= 0)
        diff == new_amount - self.amount
        data == IF diff > 0
                THEN rotate_left(self.data, diff, bits)
                ELSE rotate_right(self.data, -diff, bits)
    IN  [iter |-> [data |-> data, amount |-> new_amount],
         item |-> <<data, new_amount>>]

\* next: the advanced iterator and the item (data, new_amount) it returns.
ZigZagBits_next(self, bits) ==
    LET new_amount == (-self.amount) + AsU16(self.amount <= 0)
        diff == new_amount - self.amount
        data == IF diff > 0
                THEN rotate_left(self.data, diff, bits)
                ELSE rotate_right(self.data, -diff, bits)
    IN  [iter |-> [data |-> data, amount |-> new_amount],
         item |-> <<data, new_amount>>]

\* i16::abs
Abs(a) == IF a < 0 THEN -a ELSE a

(***************************************************************************)
(* Ring: the board, [u16; 4], indexed 0 (innermost) to 3.                  *)
(***************************************************************************)
MkRing(a, b, c, d) == [r \in 0..(NUM_RINGS - 1) |->
                          IF r = 0 THEN a ELSE IF r = 1 THEN b
                          ELSE IF r = 2 THEN c ELSE d]

\* RingMovement::Ring and RingMovement::Row
RingMove(r, amount, clockwise) ==
    [type |-> "ring", r |-> r, amount |-> amount, clockwise |-> clockwise]
RowMove(th, amount, outward) ==
    [type |-> "row", th |-> th, amount |-> amount, outward |-> outward]

(***************************************************************************)
(* RingRotations: the rotations of one subring, smallest first.            *)
(***************************************************************************)
\* A faulty variant of RingRotations_new: an empty subring gets a generator too.
RingRotations_new_Always(ring, r) ==
    Some([ring |-> ring, r |-> r, subring_iter |-> ZigZagBits_new(ring[r])])

\* None if the subring has no enemy.
RingRotations_new(ring, r) ==
    IF ring[r] = 0 THEN None
    ELSE Some([ring |-> ring, r |-> r, subring_iter |-> ZigZagBits_new(ring[r])])

\* A faulty variant of RingRotations_next: the movement carries the signed amount.
RingRotations_next_Signed(self) ==
    LET z == ZigZagBits_next(self.subring_iter, SubringBits)
        subring == z.item[1]
        amount == z.item[2]
        ring == [self.ring EXCEPT ![self.r] = subring]
    IN  [iter |-> [self EXCEPT !.ring = ring, !.subring_iter = z.iter],
         moved |-> ring,
         movement |-> RingMove(self.r, amount, amount > 0)]

\* next: the advanced generator, the moved board and the movement.
RingRotations_next(self) ==
    LET z == ZigZagBits_next(self.subring_iter, SubringBits)
        subring == z.item[1]
        amount == z.item[2]
        ring == [self.ring EXCEPT ![self.r] = subring]
    IN  [iter |-> [self EXCEPT !.ring = ring, !.subring_iter = z.iter],
         moved |-> ring,
         movement |-> RingMove(self.r, Abs(amount), amount > 0)]

(***************************************************************************)
(* RingShifts: the shifts of one row (angles th and th + 6).               *)
(***************************************************************************)
\* The loop of RingShifts::new from ring r on: the row sampled from the board.
RECURSIVE SampleRow(_, _, _, _)
SampleRow(ring, th, r, row) ==
    IF r = 4 THEN row
    ELSE LET low == AsU16(BitAnd(ring[r], Shl(1, th)) # 0)
             high == AsU16(BitAnd(ring[r], Shl(1, th + 6)) # 0)
             row1 == BitOr(row, Shl(low, r))
             row2 == BitOr(row1, Shl(high, 7 - r))
         IN  SampleRow(ring, th, r + 1, row2)

RingShifts_new(ring, th) ==
    LET row == SampleRow(ring, th, 0, 0)
    IN  IF row = 0 THEN None
        ELSE Some([ring |-> ring, th |-> th, row_iter |-> ZigZagBits_new(row)])

\* A faulty variant of WriteRowBit: the old bits of the row are not cleared.
WriteRowBit_NoClear(subring, row, th, r) ==
    LET low == AsU16(BitAnd(row, Shl(1, r)) # 0)
        high == AsU16(BitAnd(row, Shl(1, 7 - r)) # 0)
    IN  BitOr(BitOr(subring, Shl(low, th)), Shl(high, th + 6))

\* The write-back of RingShifts::next for one subring.
WriteRowBit(subring, row, th, r) ==
    LET low == AsU16(BitAnd(row, Shl(1, r)) # 0)
        high == AsU16(BitAnd(row, Shl(1, 7 - r)) # 0)
        s1 == BitOr(BitAnd(subring, BitNot(Shl(1, th))), Shl(low, th))
    IN  BitOr(BitAnd(s1, BitNot(Shl(1, th + 6))), Shl(high, th + 6))

RingShifts_next(self) ==
    LET z == ZigZagBits_next(self.row_iter, RowBits)
        row == z.item[1]
        amount == z.item[2]
        ring == [r \in 0..3 |-> WriteRowBit(self.ring[r], row, self.th, r)]
    IN  [iter |-> [self EXCEPT !.ring = ring, !.row_iter = z.iter],
         moved |-> ring,
         movement |-> RowMove(self.th, Abs(amount), amount > 0)]

(***************************************************************************)
(* get_solution: the terminal evaluator.                                   *)
(***************************************************************************)
\* The while loop: one hammer per iteration, from the lowest set bit.
RECURSIVE HammerLoop(_, _)
HammerLoop(inner, hammerable_groups) ==
    IF inner = 0 THEN hammerable_groups
    ELSE HammerLoop(BitAnd(inner, BitNot(Shl(3, trailing_zeros(inner)))),
                    hammerable_groups + 1)

\* A faulty variant of get_solution: a board that uses all its actions is rejected.
get_solution_Strict(ring) ==
    LET enemies == count_ones(ring[0]) + count_ones(ring[1])
                   + count_ones(ring[2]) + count_ones(ring[3])
        outer == BitOr(ring[2], ring[3])
        inner0 == BitAnd(BitOr(ring[0], ring[1]), BitNot(outer))
        inner == rotate_right(inner0, trailing_ones(inner0), SubringBits)
        actions == (enemies \div 4) + AsU16(enemies % 4 # 0)
        jump_rows == count_ones(outer)
        hammerable_groups == HammerLoop(inner, 0)
    IN  IF hammerable_groups + jump_rows >= actions
        THEN None
        ELSE Some([moves |-> <<>>, result |-> ring,
                   jump_rows |-> jump_rows,
                   hammerable_groups |-> hammerable_groups])

\* A faulty variant of PreRotate: the mask is left as it is.
PreRotate_Skip(inner) == inner

\* Subring(inner).rotate_right(inner.trailing_ones() as u16).value()
PreRotate(inner) == rotate_right(inner, trailing_ones(inner), SubringBits)

\* The local variables of get_solution when its while loop has ended.
get_solution_locals(ring) ==
    LET enemies == count_ones(ring[0]) + count_ones(ring[1])
                   + count_ones(ring[2]) + count_ones(ring[3])
        outer == BitOr(ring[2], ring[3])
        inner == PreRotate(BitAnd(BitOr(ring[0], ring[1]), BitNot(outer)))
    IN  [enemies |-> enemies,
         outer |-> outer,
         inner |-> inner,
         actions |-> (enemies \div 4) + AsU16(enemies % 4 # 0),
         jump_rows |-> count_ones(outer),
         hammerable_groups |-> HammerLoop(inner, 0)]

get_solution(ring) ==
    LET v == get_solution_locals(ring)
    IN  IF v.hammerable_groups + v.jump_rows > v.actions
        THEN None
        ELSE Some([moves |-> <<>>, result |-> ring,
                   jump_rows |-> v.jump_rows,
                   hammerable_groups |-> v.hammerable_groups])

(***************************************************************************)
(* The state.                                                              *)
(*   pc         where the program is: "solve", "find_solution",           *)
(*              "iterate_movements", "return", "solve_return", "done",    *)
(*              or the position of one of the pure-function checks        *)
(*   js         the JsValue given to solve (None when find_solution is    *)
(*              called directly)                                           *)
(*   out        what solve returns                                         *)
(*   ring       the board find_solution was called with                    *)
(*   max_turns  find_solution's max_turns                                  *)
(*   turn       find_solution's loop variable                              *)
(*   stack      the active find_solution_at_turn / iterate_movements       *)
(*              calls with turn > 0, outermost first                       *)
(*   ret        the Option<Solution> the last finished call returned       *)
(*   result     what find_solution returned                                *)
(*   steps      how many times a generator's next has been called          *)
(*   mi         a MaskedInt under rotation                                 *)
(*   zz         a ZigZagBits under iteration                               *)
(*   ev         a board under terminal evaluation, what get_solution       *)
(*              returned for it and the local variables it ended with      *)
(*   log        when find_solution_at_turn is called on its own: the        *)
(*              movements and boards its iterate_movements has passed to   *)
(*              the callback so far; None under find_solution              *)
(***************************************************************************)
VARIABLES pc, js, out, ring, max_turns, turn, stack, ret, result, steps,
          mi, zz, ev, log

vars == <<pc, js, out, ring, max_turns, turn, stack, ret, result, steps,
          mi, zz, ev, log>>

searchVars == <<ring, max_turns, turn, stack, ret, result, steps, log>>

EmptyRing == MkRing(0, 0, 0, 0)

(***************************************************************************)
(* iterate_movements: the generators it collects, and its loop position.   *)
(***************************************************************************)
\* A faulty variant of CollectRotators: the generators are collected with the
\* highest subring first.
RECURSIVE CollectRotators_Descending(_, _)
CollectRotators_Descending(b, r) ==
    IF r = NUM_RINGS THEN <<>>
    ELSE LET g == RingRotations_new(b, r)
         IN  CollectRotators_Descending(b, r + 1)
                 \o (IF g.some THEN <<g.value>> ELSE <<>>)

\* (0..NUM_RINGS).filter_map(|r| RingRotations::new(ring, r)).collect()
RECURSIVE CollectRotators(_, _)
CollectRotators(b, r) ==
    IF r = NUM_RINGS THEN <<>>
    ELSE LET g == RingRotations_new(b, r)
         IN  (IF g.some THEN <<g.value>> ELSE <<>>) \o CollectRotators(b, r + 1)

\* A faulty variant of CollectShifters: the rows 0..NUM_RINGS only.
RECURSIVE CollectShifters_FewerRows(_, _)
CollectShifters_FewerRows(b, th) ==
    IF th = NUM_RINGS THEN <<>>
    ELSE LET g == RingShifts_new(b, th)
         IN  (IF g.some THEN <<g.value>> ELSE <<>>)
                 \o CollectShifters_FewerRows(b, th + 1)

\* (0..(NUM_ANGLES / 2)).filter_map(|th| RingShifts::new(ring, th)).collect()
RECURSIVE CollectShifters(_, _)
CollectShifters(b, th) ==
    IF th = NUM_ANGLES \div 2 THEN <<>>
    ELSE LET g == RingShifts_new(b, th)
         IN  (IF g.some THEN <<g.value>> ELSE <<>>) \o CollectShifters(b, th + 1)

\* A call of find_solution_at_turn(b, t) with t > 0, at the start of
\* iterate_movements' loops: round n, in the rotators' loop ("rot") or the
\* shifters' ("shift"), at generator i; movement is the one the callback in
\* progress was called with.
NewFrame(b, t) ==
    [ring |-> b, turn |-> t,
     rotators |-> CollectRotators(b, 0),
     shifters |-> CollectShifters(b, 0),
     n |-> 0, phase |-> "rot", i |-> 1, movement |-> None]

Top == stack[Len(stack)]
Pop == SubSeq(stack, 1, Len(stack) - 1)

\* find_solution_at_turn(b, t) is called with the stack stk below it.
Call(b, t, stk) ==
    IF t = 0
    THEN /\ ret' = get_solution(b)
         /\ stack' = stk
         /\ pc' = "return"
    ELSE /\ ret' = None
         /\ stack' = Append(stk, NewFrame(b, t))
         /\ pc' = "iterate_movements"

(***************************************************************************)
(* find_solution                                                           *)
(***************************************************************************)
\* A faulty variant of FindSolutionTurn: the loop is for turn in 0..max_turns.
FindSolutionTurn_Exclusive ==
    /\ pc = "find_solution"
    /\ IF turn >= max_turns
       THEN /\ result' = None
            /\ pc' = IF js = None THEN "done" ELSE "solve_return"
            /\ UNCHANGED <<stack, ret>>
       ELSE /\ Call(ring, turn, stack)
            /\ UNCHANGED result
    /\ UNCHANGED <<js, out, ring, max_turns, turn, steps, mi, zz, ev, log>>

\* A faulty variant of FindSolutionTurn: every iteration searches at max_turns.
FindSolutionTurn_NoDeepening ==
    /\ pc = "find_solution"
    /\ IF turn > max_turns
       THEN /\ result' = None
            /\ pc' = IF js = None THEN "done" ELSE "solve_return"
            /\ UNCHANGED <<stack, ret>>
       ELSE /\ Call(ring, max_turns, stack)
            /\ UNCHANGED result
    /\ UNCHANGED <<js, out, ring, max_turns, turn, steps, mi, zz, ev, log>>

\* The head of the loop for turn in 0..=max_turns.
FindSolutionTurn ==
    /\ pc = "find_solution"
    /\ IF turn > max_turns
       THEN /\ result' = None
            /\ pc' = IF js = None THEN "done" ELSE "solve_return"
            /\ UNCHANGED <<stack, ret>>
       ELSE /\ Call(ring, turn, stack)
            /\ UNCHANGED result
    /\ UNCHANGED <<js, out, ring, max_turns, turn, steps, mi, zz, ev, log>>

\* find_solution_at_turn(ring, turn) has returned to find_solution.
FindSolutionReturn ==
    /\ pc = "return"
    /\ stack = <<>>
    /\ IF ret.some
       THEN /\ result' = ret
            /\ pc' = IF js = None THEN "done" ELSE "solve_return"
            /\ UNCHANGED turn
       ELSE /\ turn' = turn + 1
            /\ pc' = "find_solution"
            /\ UNCHANGED result
    /\ UNCHANGED <<js, out, ring, max_turns, stack, ret, steps, mi, zz, ev, log>>

(***************************************************************************)
(* iterate_movements with the callback of find_solution_at_turn            *)
(***************************************************************************)
\* The log after the callback is called with (movement, moved): the call is
\* recorded when it is made by the outermost iterate_movements.
Passed(movement, moved) ==
    IF log.some /\ Len(stack) = 1
    THEN Some(Append(log.value, [movement |-> movement, ring |-> moved]))
    ELSE log

\* for rotator in rotators.iter_mut(): next, then the callback.
RotatorStep ==
    /\ pc = "iterate_movements"
    /\ Top.n < NUM_ANGLES
    /\ Top.phase = "rot"
    /\ Top.i <= Len(Top.rotators)
    /\ LET f == Top
           g == RingRotations_next(f.rotators[f.i])
           f1 == [f EXCEPT !.rotators[f.i] = g.iter, !.movement = Some(g.movement)]
       IN  /\ Call(g.moved, f.turn - 1, Append(Pop, f1))
           /\ log' = Passed(g.movement, g.moved)
    /\ steps' = steps + 1
    /\ UNCHANGED <<js, out, ring, max_turns, turn, result, mi, zz, ev>>

\* A faulty variant of RotatorsDone: the rows are shifted in the rounds
\* n < NUM_RINGS only.
RotatorsDone_FewerRowRounds ==
    /\ pc = "iterate_movements"
    /\ Top.n < NUM_ANGLES
    /\ Top.phase = "rot"
    /\ Top.i > Len(Top.rotators)
    /\ stack' = Append(Pop,
          IF Top.n < NUM_RINGS
          THEN [Top EXCEPT !.phase = "shift", !.i = 1]
          ELSE [Top EXCEPT !.n = @ + 1, !.i = 1])
    /\ UNCHANGED <<pc, js, out, ring, max_turns, turn, ret, result, steps, mi, zz, ev, log>>

\* The rotators' loop of round n is over.
RotatorsDone ==
    /\ pc = "iterate_movements"
    /\ Top.n < NUM_ANGLES
    /\ Top.phase = "rot"
    /\ Top.i > Len(Top.rotators)
    /\ stack' = Append(Pop,
          IF Top.n < NUM_RINGS * 2
          THEN [Top EXCEPT !.phase = "shift", !.i = 1]
          ELSE [Top EXCEPT !.n = @ + 1, !.i = 1])
    /\ UNCHANGED <<pc, js, out, ring, max_turns, turn, ret, result, steps, mi, zz, ev, log>>

\* for shifter in shifters.iter_mut(): next, then the callback.
ShifterStep ==
    /\ pc = "iterate_movements"
    /\ Top.phase = "shift"
    /\ Top.i <= Len(Top.shifters)
    /\ LET f == Top
           g == RingShifts_next(f.shifters[f.i])
           f1 == [f EXCEPT !.shifters[f.i] = g.iter, !.movement = Some(g.movement)]
       IN  /\ Call(g.moved, f.turn - 1, Append(Pop, f1))
           /\ log' = Passed(g.movement, g.moved)
    /\ steps' = steps + 1
    /\ UNCHANGED <<js, out, ring, max_turns, turn, result, mi, zz, ev>>

\* The shifters' loop of round n is over: the next round.
ShiftersDone ==
    /\ pc = "iterate_movements"
    /\ Top.phase = "shift"
    /\ Top.i > Len(Top.shifters)
    /\ stack' = Append(Pop, [Top EXCEPT !.n = @ + 1, !.phase = "rot", !.i = 1])
    /\ UNCHANGED <<pc, js, out, ring, max_turns, turn, ret, result, steps, mi, zz, ev, log>>

\* All rounds are over: iterate_movements returns None.
IterateNone ==
    /\ pc = "iterate_movements"
    /\ Top.n = NUM_ANGLES
    /\ stack' = Pop
    /\ ret' = None
    /\ pc' = "return"
    /\ UNCHANGED <<js, out, ring, max_turns, turn, result, steps, mi, zz, ev, log>>

\* A faulty variant of CallbackNone: the loop stays at the same generator.
CallbackNone_SameGenerator ==
    /\ pc = "return"
    /\ stack # <<>>
    /\ ~ret.some
    /\ stack' = Append(Pop, [Top EXCEPT !.movement = None])
    /\ pc' = "iterate_movements"
    /\ UNCHANGED <<js, out, ring, max_turns, turn, ret, result, steps, mi, zz, ev, log>>

\* The callback's find_solution_at_turn returned None: the loop goes on.
CallbackNone ==
    /\ pc = "return"
    /\ stack # <<>>
    /\ ~ret.some
    /\ stack' = Append(Pop, [Top EXCEPT !.i = @ + 1, !.movement = None])
    /\ pc' = "iterate_movements"
    /\ UNCHANGED <<js, out, ring, max_turns, turn, ret, result, steps, mi, zz, ev, log>>

\* A faulty variant of PushFront: the movement is pushed to the back.
PushFront_Back(solution, movement) ==
    [solution EXCEPT !.moves = Append(@, movement)]

\* solution.moves.push_front(movement)
PushFront(solution, movement) ==
    [solution EXCEPT !.moves = <<movement>> \o @]

\* The callback's find_solution_at_turn returned a solution: the movement is
\* pushed to its front and iterate_movements returns it.
CallbackSome ==
    /\ pc = "return"
    /\ stack # <<>>
    /\ ret.some
    /\ ret' = Some(PushFront(ret.value, Top.movement.value))
    /\ stack' = Pop
    /\ UNCHANGED <<pc, js, out, ring, max_turns, turn, result, steps, mi, zz, ev, log>>

SearchNext ==
    \/ FindSolutionTurn
    \/ FindSolutionReturn
    \/ RotatorStep
    \/ RotatorsDone
    \/ ShifterStep
    \/ ShiftersDone
    \/ IterateNone
    \/ CallbackNone
    \/ CallbackSome

(***************************************************************************)
(* The boards find_solution is called with: every board of at most two     *)
(* enemies, and some denser ones that take 0 to 3 turns, a half turn of a  *)
(* ring or a half shift of a row among them, and one with enemies in every *)
(* ring and every row.                                                     *)
(***************************************************************************)
Cells == (0..(NUM_RINGS - 1)) \X (0..(NUM_ANGLES - 1))

\* The board whose only enemy is at ring c[1], angle c[2].
Place(c) == [r \in 0..(NUM_RINGS - 1) |-> IF r = c[1] THEN Pow2(c[2]) ELSE 0]

Overlay(a, b) == [r \in 0..(NUM_RINGS - 1) |-> BitOr(a[r], b[r])]

TwoEnemyBoards == {Overlay(Place(c1), Place(c2)) : c1 \in Cells, c2 \in Cells}

SampleBoards ==
    { EmptyRing,
      MkRing(48, 8, 4, 0),
      MkRing(16, 768, 16, 16),
      MkRing(0, 769, 1, 2048),
      MkRing(576, 8, 16, 512),
      MkRing(1, 1088, 17, 1),
      MkRing(128, 0, 12, 0),
      MkRing(0, 32, 0, 68),
      MkRing(4, 256, 256, 256),
      MkRing(2048, 2048, 16, 16),
      MkRing(2052, 1026, 2052, 9) }

InputBoards == TwoEnemyBoards \cup SampleBoards

\* The values of the variables a specification does not use.
IdleSearch ==
    /\ ring = EmptyRing
    /\ max_turns = 0
    /\ turn = 0
    /\ stack = <<>>
    /\ ret = None
    /\ result = None
    /\ steps = 0
    /\ log = None

IdleSolve == js = None /\ out = None
IdleProbes == mi = None /\ zz = None /\ ev = None

(***************************************************************************)
(* Spec: find_solution(ring, max_turns) on a well-formed board.            *)
(***************************************************************************)
Init ==
    /\ pc = "find_solution"
    /\ ring \in InputBoards
    /\ max_turns \in 0..MaxTurnsBound
    /\ turn = 0
    /\ stack = <<>>
    /\ ret = None
    /\ result = None
    /\ steps = 0
    /\ log = None
    /\ IdleSolve
    /\ IdleProbes

Next == SearchNext

Spec == Init /\ [][Next]_vars

(***************************************************************************)
(* The moves of the puzzle, stated on cells rather than on bit patterns:   *)
(* what the claims about the search are measured against.                  *)
(***************************************************************************)
\* Whether the board has an enemy at ring r, angle a.
Enemy(b, r, a) == TestBit(b[r], a)

\* The 12-bit mask of the angles a at which on[a] holds.
MaskOf(on) ==
    LET f[a \in 0..NUM_ANGLES] ==
            IF a = NUM_ANGLES THEN 0
            ELSE (IF on[a] THEN Pow2(a) ELSE 0) + f[a + 1]
    IN  f[0]

\* Ring r0 turned by k angles (negative: the other way).
TurnRing(b, r0, k) ==
    [r \in 0..3 |->
        IF r = r0
        THEN MaskOf([a \in 0..11 |-> Enemy(b, r, (a - k) % 12)])
        ELSE b[r]]

\* The place of cell (r, a) in the row of angles th and th + 6: outward along
\* angle th, then inward along the opposite angle.
RowPlace(r, a, th) == IF a = th THEN r ELSE 7 - r

\* The cell at place p of that row.
RowCell(p, th) == IF p < 4 THEN <<p, th>> ELSE <<7 - p, th + 6>>

\* The row of angles th and th + 6 shifted by k places.
ShiftRow(b, th, k) ==
    [r \in 0..3 |->
        MaskOf([a \in 0..11 |->
            IF a = th \/ a = th + 6
            THEN LET c == RowCell((RowPlace(r, a, th) - k) % 8, th)
                 IN  Enemy(b, c[1], c[2])
            ELSE Enemy(b, r, a)])]

\* Every board one move away: a ring turned by 1..11 or a row shifted by 1..7.
OneMove(b) ==
    {TurnRing(b, r, k) : r \in 0..3, k \in 1..11}
        \cup {ShiftRow(b, th, k) : th \in 0..5, k \in 1..7}

\* The boards at most n moves away from a board of S.
RECURSIVE WithinMoves(_, _)
WithinMoves(S, n) ==
    IF n = 0 THEN S
    ELSE S \cup WithinMoves(UNION {OneMove(b) : b \in S}, n - 1)

\* Some board at most n moves from b is accepted by the terminal evaluator.
SolvableWithin(b, n) == \E x \in WithinMoves({b}, n) : get_solution(x).some

\* The board after the moves of a solution, earliest first.
ApplyMove(b, mv) ==
    IF mv.type = "ring"
    THEN TurnRing(b, mv.r, IF mv.clockwise THEN mv.amount ELSE -mv.amount)
    ELSE ShiftRow(b, mv.th, IF mv.outward THEN mv.amount ELSE -mv.amount)

RECURSIVE Replay(_, _)
Replay(b, moves) ==
    IF moves = <<>> THEN b ELSE Replay(ApplyMove(b, Head(moves)), Tail(moves))

Returned == pc = "done" /\ js = None

\* C1: a solution find_solution returns has the fewest turns: no sequence of
\* fewer moves than it holds leads from the input board to a board the
\* terminal evaluator accepts.
C1_MinimumTurns ==
    (Returned /\ result.some /\ Len(result.value.moves) >= 1)
        => ~SolvableWithin(ring, Len(result.value.moves) - 1)

\* A solution of two moves was returned.
C1_Witness ==
    Returned /\ result.some /\ Len(result.value.moves) = 2

\* C2: find_solution returns no solution only if no sequence of at most
\* max_turns moves leads to an accepted board; when one exists a solution
\* is returned.
C2_Exhaustive ==
    (Returned /\ ~result.some) => ~SolvableWithin(ring, max_turns)

\* No solution was returned after iterate_movements ran to its end.
C2_Witness ==
    Returned /\ ~result.some /\ max_turns >= 1 /\ steps > 0

\* C3: replaying a returned solution's moves on the input board gives its
\* result board, which the terminal evaluator accepts with the same
\* counters, and the moves are at most max_turns.
C3_SolutionConsistent ==
    (Returned /\ result.some) =>
        LET sol == result.value
        IN  /\ Replay(ring, sol.moves) = sol.result
            /\ get_solution(sol.result)
                 = Some([moves |-> <<>>, result |-> sol.result,
                         jump_rows |-> sol.jump_rows,
                         hammerable_groups |-> sol.hammerable_groups])
            /\ Len(sol.moves) <= max_turns

\* A solution of a ring move and a row move was returned.
C3_Witness ==
    /\ Returned /\ result.some
    /\ \E i, j \in 1..Len(result.value.moves) :
          /\ result.value.moves[i].type = "ring"
          /\ result.value.moves[j].type = "row"

\* C8: with max_turns = 0 find_solution returns exactly what the terminal
\* evaluator returns for the input board, and no generator is ever advanced.
C8_ZeroTurnsIsEvaluator ==
    max_turns = 0 =>
        /\ steps = 0
        /\ stack = <<>>
        /\ Returned => result = get_solution(ring)

\* find_solution(board, 0) returned a solution for a board with enemies.
C8_Witness ==
    Returned /\ max_turns = 0 /\ ring # EmptyRing /\ result.some

\* A movement is well-formed: a ring 0..3 turned by 1..11, or a row 0..5
\* shifted by 1..7.
WellFormedMove(mv) ==
    \/ /\ mv.type = "ring"
       /\ mv.r \in 0..3
       /\ mv.amount \in 1..11
       /\ mv.clockwise \in BOOLEAN
    \/ /\ mv.type = "row"
       /\ mv.th \in 0..5
       /\ mv.amount \in 1..7
       /\ mv.outward \in BOOLEAN

\* The movement a call's callback is running with is the one its generator
\* made at its last step: its index, the magnitude of the generator's signed
\* offset, and the direction flag true exactly when the offset is positive.
FromGenerator(f) ==
    LET mv == f.movement.value
    IN  IF f.phase = "rot"
        THEN LET g == f.rotators[f.i]
             IN  /\ mv.type = "ring"
                 /\ mv.r = g.r
                 /\ mv.amount = Abs(g.subring_iter.amount)
                 /\ mv.clockwise = (g.subring_iter.amount > 0)
        ELSE LET g == f.shifters[f.i]
             IN  /\ mv.type = "row"
                 /\ mv.th = g.th
                 /\ mv.amount = Abs(g.row_iter.amount)
                 /\ mv.outward = (g.row_iter.amount > 0)

\* C9: every move of a returned solution is well-formed, and its magnitude
\* and direction flag are those of the generator's signed zig-zag offset.
C9_MovesWellFormed ==
    /\ \A k \in 1..Len(stack) :
          stack[k].movement.some =>
              /\ WellFormedMove(stack[k].movement.value)
              /\ FromGenerator(stack[k])
    /\ ret.some =>
          \A k \in 1..Len(ret.value.moves) : WellFormedMove(ret.value.moves[k])
    /\ result.some =>
          \A k \in 1..Len(result.value.moves) : WellFormedMove(result.value.moves[k])

\* A solution was returned with a clockwise ring move and an inward row
\* move.
C9_Witness ==
    /\ Returned /\ result.some
    /\ \E i, j \in 1..Len(result.value.moves) :
          /\ result.value.moves[i].type = "ring"
          /\ result.value.moves[i].clockwise
          /\ result.value.moves[j].type = "row"
          /\ ~result.value.moves[j].outward

\* Bits 12..15 of every subring of the board are zero.
Masked12(b) == \A r \in 0..3 : b[r] < Pow2(NUM_ANGLES)

\* C10: from a well-formed input board, every board a generator holds or
\* yields, every board a call or the evaluator is given, and every result
\* board has bits 12..15 of each subring zero.
C10_BoardsStayMasked ==
    /\ \A k \in 1..Len(stack) :
          /\ Masked12(stack[k].ring)
          /\ \A i \in 1..Len(stack[k].rotators) : Masked12(stack[k].rotators[i].ring)
          /\ \A i \in 1..Len(stack[k].shifters) : Masked12(stack[k].shifters[i].ring)
    /\ ret.some => Masked12(ret.value.result)
    /\ result.some => Masked12(result.value.result)

\* The terminal evaluator has just rejected a board made by a second move, a
\* row shift following the first call's move.
C10_Witness ==
    /\ pc = "return"
    /\ Len(stack) = 2
    /\ ~ret.some
    /\ Top.movement.some
    /\ Top.movement.value.type = "row"

(***************************************************************************)
(* SpecRot: rotate_left and rotate_right applied to every 12-bit Subring   *)
(* and 8-bit Row value.                                                     *)
(***************************************************************************)
\* A value of the given width, the amount n it is to be rotated by, and
\* the rotations applied to it so far.
NewMaskedInt(bits, v, n) ==
    [bits |-> bits, seed |-> v, n |-> n, value |-> v, ops |-> <<>>]

InitRot ==
    /\ pc = "rotate"
    /\ \E bits \in {SubringBits, RowBits} :
          \E v \in 0..(Pow2(bits) - 1), n \in 0..MaxShift :
              mi = NewMaskedInt(bits, v, n)
    /\ zz = None
    /\ ev = None
    /\ IdleSearch
    /\ IdleSolve

\* value.rotate_left(n)
RotateLeft ==
    /\ pc = "rotate"
    /\ mi.ops = <<>>
    /\ mi' = [mi EXCEPT !.value = rotate_left(@, mi.n, mi.bits),
                        !.ops = Append(@, "left")]
    /\ UNCHANGED <<pc, js, out, zz, ev>>
    /\ UNCHANGED searchVars

\* value.rotate_right(n)
RotateRight ==
    /\ pc = "rotate"
    /\ Len(mi.ops) <= 1
    /\ mi.ops # <<"right">>
    /\ mi' = [mi EXCEPT !.value = rotate_right(@, mi.n, mi.bits),
                        !.ops = Append(@, "right")]
    /\ UNCHANGED <<pc, js, out, zz, ev>>
    /\ UNCHANGED searchVars

NextRot == RotateLeft \/ RotateRight

SpecRot == InitRot /\ [][NextRot]_vars

\* C6: for both widths, rotate_right undoes rotate_left by the same amount,
\* rotate_left by 0 or by the width is the identity, and no rotation of an
\* N-bit value sets a bit at position N or above.
C6_RotationRoundTrip ==
    pc = "rotate" =>
        /\ mi.value < Pow2(mi.bits)
        /\ mi.ops = <<"left", "right">> => mi.value = mi.seed
        /\ (mi.ops = <<"left">> /\ mi.n \in {0, mi.bits}) => mi.value = mi.seed

\* A Subring with bits 0 and 11 set was rotated left by 5 and back.
C6_Witness ==
    /\ pc = "rotate"
    /\ mi.bits = SubringBits
    /\ mi.seed = 2049
    /\ mi.n = 5
    /\ mi.ops = <<"left", "right">>

(***************************************************************************)
(* SpecZig: ZigZagBits over every Subring and Row seed.                    *)
(***************************************************************************)
\* A fresh ZigZagBits over a seed of the given width, the number of calls
\* of next so far and the item the last call returned.
NewZigZag(bits, v) ==
    [bits |-> bits, seed |-> v, iter |-> ZigZagBits_new(v),
     calls |-> 0, item |-> None]

InitZig ==
    /\ pc = "zigzag"
    /\ \E bits \in {SubringBits, RowBits} :
          \E v \in 0..(Pow2(bits) - 1) : zz = NewZigZag(bits, v)
    /\ mi = None
    /\ ev = None
    /\ IdleSearch
    /\ IdleSolve

\* z.next()
ZigZagNext ==
    /\ pc = "zigzag"
    /\ zz.calls < MaxCalls
    /\ LET z == ZigZagBits_next(zz.iter, zz.bits)
       IN  zz' = [zz EXCEPT !.iter = z.iter, !.item = Some(z.item),
                            !.calls = @ + 1]
    /\ UNCHANGED <<pc, js, out, mi, ev>>
    /\ UNCHANGED searchVars

NextZig == ZigZagNext

SpecZig == InitZig /\ [][NextZig]_vars

\* The k-th term of 1, -1, 2, -2, 3, -3, ...
ZigZagOffset(k) == IF k % 2 = 1 THEN (k + 1) \div 2 ELSE -(k \div 2)

\* The bits-bit value v with every bit moved up by off places, circularly.
Turned(v, off, bits) ==
    LET f[i \in 0..bits] ==
            IF i = bits THEN 0
            ELSE (IF TestBit(v, i) THEN Pow2((i + off) % bits) ELSE 0) + f[i + 1]
    IN  f[0]

\* C7: the k-th call of next returns the k-th offset of 1, -1, 2, -2, ...
\* whatever the seed, and the seed rotated by that offset from its original
\* value.
C7_ZigZagSequence ==
    (pc = "zigzag" /\ zz.calls >= 1) =>
        /\ zz.item.value[2] = ZigZagOffset(zz.calls)
        /\ zz.item.value[1] = Turned(zz.seed, ZigZagOffset(zz.calls), zz.bits)

\* The Row of the source's example after its fourth call: rotated right by 2.
C7_Witness ==
    /\ pc = "zigzag"
    /\ zz.bits = RowBits
    /\ zz.seed = 2
    /\ zz.calls = 4
    /\ zz.item = Some(<<128, -2>>)

(***************************************************************************)
(* SpecEval: get_solution on well-formed boards.                           *)
(***************************************************************************)
\* The boards evaluated: subring 0 takes every 12-bit value a; subring 1 is
\* empty, a or angles 0 and 11; subring 2 is empty, angle 0 or a; subring 3
\* is empty or a.
InitEval ==
    /\ pc = "evaluate"
    /\ \E a \in 0..(Pow2(NUM_ANGLES) - 1) :
          \E b \in {0, a, 2049}, c \in {0, 1, a}, d \in {0, a} :
              ev = [ring |-> MkRing(a, b, c, d), sol |-> None, locals |-> None]
    /\ mi = None
    /\ zz = None
    /\ IdleSearch
    /\ IdleSolve

\* get_solution(ring)
Evaluate ==
    /\ pc = "evaluate"
    /\ ev' = [ev EXCEPT !.sol = get_solution(ev.ring),
                         !.locals = Some(get_solution_locals(ev.ring))]
    /\ pc' = "evaluated"
    /\ UNCHANGED <<js, out, mi, zz>>
    /\ UNCHANGED searchVars

NextEval == Evaluate

SpecEval == InitEval /\ [][NextEval]_vars

\* The angles with an enemy in subring 2 or 3.
OuterAngles(b) == {a \in 0..11 : Enemy(b, 2, a) \/ Enemy(b, 3, a)}

\* The angles with an enemy in subring 0 or 1 and none in subring 2 or 3.
InnerAngles(b) ==
    {a \in 0..11 : (Enemy(b, 0, a) \/ Enemy(b, 1, a)) /\ a \notin OuterAngles(b)}

\* The length of the run of angles of S that starts at a, clockwise.
RECURSIVE RunLength(_, _)
RunLength(S, a) == IF a \notin S THEN 0 ELSE 1 + RunLength(S, (a + 1) % 12)

RECURSIVE SumOfRuns(_, _)
SumOfRuns(S, starts) ==
    IF starts = {} THEN 0
    ELSE LET a == CHOOSE x \in starts : TRUE
         IN  ((RunLength(S, a) + 1) \div 2) + SumOfRuns(S, starts \ {a})

\* One hammer per two angles of each run of S around the circle.
HammersFor(S) ==
    IF S = 0..11 THEN 6
    ELSE SumOfRuns(S, {a \in S : ((a + 11) % 12) \notin S})

\* C4: get_solution accepts a board iff jump_rows + hammerable_groups <=
\* ceil(enemies / 4), with enemies the number of occupied cells, jump_rows
\* the number of angles with an outer enemy and hammerable_groups computed
\* from the inner-only angles; it then returns no moves, the board itself
\* and the two counters, and otherwise None.
C4_TerminalEvaluator ==
    pc = "evaluated" =>
        LET b == ev.ring
            enemies == Cardinality({c \in Cells : Enemy(b, c[1], c[2])})
            actions == (enemies + 3) \div 4
            jump_rows == Cardinality(OuterAngles(b))
            hammerable_groups == HammersFor(InnerAngles(b))
        IN  ev.sol = IF jump_rows + hammerable_groups <= actions
                     THEN Some([moves |-> <<>>, result |-> b,
                                jump_rows |-> jump_rows,
                                hammerable_groups |-> hammerable_groups])
                     ELSE None

\* A board was accepted that needs a jump and two hammers and has no action
\* to spare.
C4_Witness ==
    /\ pc = "evaluated"
    /\ ev.sol.some
    /\ ev.sol.value.jump_rows = 1
    /\ ev.sol.value.hammerable_groups = 2
    /\ Cardinality({c \in Cells : Enemy(ev.ring, c[1], c[2])}) \in 9..12

(***************************************************************************)
(* SpecSolve: solve(ring) on a JsValue holding an array of numbers.        *)
(***************************************************************************)
\* Result<JsValue>
Ok(v) == [ok |-> TRUE, value |-> v]
Err == [ok |-> FALSE]

JsNull == [type |-> "null"]

\* serde_wasm_bindgen::from_value into [u16; 4]: an array of exactly four
\* numbers, each of which fits a u16.
from_value(v) ==
    IF Len(v) = NUM_RINGS /\ \A i \in 1..Len(v) : v[i] \in 0..U16_MAX
    THEN Ok(MkRing(v[1], v[2], v[3], v[4]))
    ELSE Err

\* serde_wasm_bindgen::to_value(&solution): the fields in camelCase.
to_value(solution) ==
    [moves |-> solution.moves,
     result |-> <<solution.result[0], solution.result[1],
                  solution.result[2], solution.result[3]>>,
     jumpRows |-> solution.jump_rows,
     hammerableGroups |-> solution.hammerable_groups]

\* The numbers the arrays given to solve are made of: some of 12 bits, one
\* with bit 12 set, and one beyond a u16.
JsNumbers == {0, 1, 2048, 4096, 65536}

JsInputs ==
    {<<a, b, c, d>> : a \in JsNumbers, b \in JsNumbers, c \in JsNumbers, d \in JsNumbers}
        \cup {<<1, 1, 1>>}

InitSolve ==
    /\ pc = "solve"
    /\ js \in {Some(v) : v \in JsInputs}
    /\ out = None
    /\ IdleSearch
    /\ IdleProbes

\* solve: the deserialization, then find_solution(ring, MAX_TURNS).
Solve ==
    /\ pc = "solve"
    /\ LET r == from_value(js.value)
       IN  IF r.ok
           THEN /\ ring' = r.value
                /\ max_turns' = MAX_TURNS
                /\ turn' = 0
                /\ pc' = "find_solution"
                /\ UNCHANGED out
           ELSE /\ out' = Err
                /\ pc' = "done"
                /\ UNCHANGED <<ring, max_turns, turn>>
    /\ UNCHANGED <<js, stack, ret, result, steps, mi, zz, ev, log>>

\* solve: find_solution has returned.
SolveReturn ==
    /\ pc = "solve_return"
    /\ out' = Ok(IF result.some THEN to_value(result.value) ELSE JsNull)
    /\ pc' = "done"
    /\ UNCHANGED <<js, mi, zz, ev>>
    /\ UNCHANGED searchVars

NextSolve == Solve \/ SolveReturn \/ SearchNext

SpecSolve == InitSolve /\ [][NextSolve]_vars

\* A subring value has a bit above position 11 set.
OutOfRange(v) == \E i \in 1..Len(v) : v[i] >= Pow2(NUM_ANGLES)

\* C5: solve on a board with a bit above position 11 set is rejected with
\* an error before any search logic runs: find_solution is never entered
\* and no Solution is returned.
C5_OutOfRangeRejected ==
    (js.some /\ OutOfRange(js.value)) =>
        /\ pc \in {"solve", "done"}
        /\ pc = "done" => ~out.ok

(***************************************************************************)
(* SpecCalls: find_solution(ring, max_turns), or find_solution_at_turn     *)
(* (ring, turn) called on its own, where the calls its iterate_movements   *)
(* makes to the callback are logged.                                       *)
(***************************************************************************)
\* Every board with an enemy at angle 0 and at most one more, and the
\* denser ones.
CallBoards ==
    {Overlay(Place(<<r, 0>>), Place(c)) : r \in 0..(NUM_RINGS - 1), c \in Cells}
        \cup SampleBoards

InitCalls ==
    /\ ring \in CallBoards
    /\ \/ /\ pc = "find_solution"
          /\ max_turns \in 0..MaxTurnsBound
          /\ turn = 0
          /\ log = None
       \/ /\ pc = "find_solution_at_turn"
          /\ turn \in 0..MaxAtTurn
          /\ max_turns = turn
          /\ log = Some(<<>>)
    /\ stack = <<>>
    /\ ret = None
    /\ result = None
    /\ steps = 0
    /\ IdleSolve
    /\ IdleProbes

\* find_solution_at_turn(ring, turn) is entered.
AtTurnCall ==
    /\ pc = "find_solution_at_turn"
    /\ Call(ring, turn, stack)
    /\ UNCHANGED <<js, out, ring, max_turns, turn, result, steps, mi, zz, ev, log>>

\* find_solution_at_turn(ring, turn) returns to the one who called it.
AtTurnReturn ==
    /\ pc = "return"
    /\ stack = <<>>
    /\ log.some
    /\ result' = ret
    /\ pc' = "done"
    /\ UNCHANGED <<js, out, ring, max_turns, turn, stack, ret, steps, mi, zz, ev, log>>

\* The loop of find_solution, when it is find_solution that was called.
FindSolutionLoop == log = None /\ (FindSolutionTurn \/ FindSolutionReturn)

NextCalls ==
    \/ AtTurnCall
    \/ AtTurnReturn
    \/ FindSolutionLoop
    \/ RotatorStep
    \/ RotatorsDone
    \/ ShifterStep
    \/ ShiftersDone
    \/ IterateNone
    \/ CallbackNone
    \/ CallbackSome

SpecCalls == InitCalls /\ [][NextCalls]_vars

\* find_solution returned / find_solution_at_turn called on its own returned.
FoundReturned == pc = "done" /\ log = None
AtTurnReturned == pc = "done" /\ log.some

\* The Solution of a board that needs no move and no action.
NothingToDo(b) ==
    [moves |-> <<>>, result |-> b, jump_rows |-> 0, hammerable_groups |-> 0]

\* C11: on the board with no enemy find_solution returns, for every
\* max_turns, the Solution with no move, the input board as result and no
\* jump row and no hammer group; and iterate_movements on that board has no
\* ring or row generator, calls the callback zero times and yields None.
C11_EmptyBoard ==
    ring = EmptyRing =>
        /\ FoundReturned => result = Some(NothingToDo(ring))
        /\ \A i \in 1..Len(stack) :
              stack[i].ring = EmptyRing =>
                  stack[i].rotators = <<>> /\ stack[i].shifters = <<>>
        /\ (log.some /\ turn > 0) =>
              /\ log.value = <<>>
              /\ steps = 0
              /\ pc = "done" => result = None

C11_Witness ==
    /\ ring = EmptyRing
    /\ AtTurnReturned
    /\ turn > 0
    /\ result = None
    /\ log = Some(<<>>)

(***************************************************************************)
(* The order of the candidate moves, stated on cells.                      *)
(***************************************************************************)
NonemptyRing(b, r) == \E a \in 0..11 : Enemy(b, r, a)
NonemptyRow(b, th) == \E r \in 0..3 : Enemy(b, r, th) \/ Enemy(b, r, th + 6)

\* The rings r.. with an enemy, as the candidates of round n.
RECURSIVE RingSlots(_, _, _)
RingSlots(b, n, r) ==
    IF r = 4 THEN <<>>
    ELSE (IF NonemptyRing(b, r) THEN <<[kind |-> "ring", at |-> r, n |-> n]>>
          ELSE <<>>) \o RingSlots(b, n, r + 1)

\* The rows th.. with an enemy, as the candidates of round n.
RECURSIVE RowSlots(_, _, _)
RowSlots(b, n, th) ==
    IF th = 6 THEN <<>>
    ELSE (IF NonemptyRow(b, th) THEN <<[kind |-> "row", at |-> th, n |-> n]>>
          ELSE <<>>) \o RowSlots(b, n, th + 1)

\* The candidates of the rounds n..11 in the order they are tried: in each
\* round the rings, then, in the first 8 rounds only, the rows.
RECURSIVE CallSlots(_, _)
CallSlots(b, n) ==
    IF n = 12 THEN <<>>
    ELSE RingSlots(b, n, 0) \o (IF n < 8 THEN RowSlots(b, n, 0) ELSE <<>>)
             \o CallSlots(b, n + 1)

\* The movement and the board of a candidate: its ring or row moved by the
\* (n+1)-th offset of 1, -1, 2, -2, ...
CandidateAt(b, slot) ==
    LET off == ZigZagOffset(slot.n + 1)
        amount == IF off > 0 THEN off ELSE -off
    IN  IF slot.kind = "ring"
        THEN [movement |-> RingMove(slot.at, amount, off > 0),
              ring |-> TurnRing(b, slot.at, off)]
        ELSE [movement |-> RowMove(slot.at, amount, off > 0),
              ring |-> ShiftRow(b, slot.at, off)]

\* Some sequence of exactly m moves of rings and rows that have an enemy
\* leads from b to a board the terminal evaluator accepts.
RECURSIVE ExactlySolvable(_, _)
ExactlySolvable(b, m) ==
    IF m = 0 THEN get_solution(b).some
    ELSE \/ \E r \in 0..3 : /\ NonemptyRing(b, r)
                            /\ \E k \in 1..11 :
                                  ExactlySolvable(TurnRing(b, r, k), m - 1)
         \/ \E th \in 0..5 : /\ NonemptyRow(b, th)
                             /\ \E k \in 1..7 :
                                   ExactlySolvable(ShiftRow(b, th, k), m - 1)

\* C12: iterate_movements tries the candidates in a fixed order and stops
\* at the first the callback accepts: the j-th call of the callback is the
\* j-th candidate of the order "rounds 0..11; in a round the rings with an
\* enemy by increasing index, then for n < 8 the rows with an enemy by
\* increasing index, each moved by its (n+1)-th zig-zag offset"; no call
\* follows an accepted one, and the solution returned starts with the
\* earliest candidate whose board is solvable in the remaining turns.
C12_FirstAccepted ==
    /\ (log.some /\ log.value # <<>>) =>
          LET k == Len(log.value)
              order == CallSlots(ring, 0)
          IN  /\ k <= Len(order)
              /\ log.value[k] = CandidateAt(ring, order[k])
    /\ (AtTurnReturned /\ turn > 0) =>
          LET calls == log.value
              k == Len(calls)
          IN  /\ \A j \in 1..(k - 1) : ~ExactlySolvable(calls[j].ring, turn - 1)
              /\ IF result.some
                 THEN /\ k >= 1
                      /\ ExactlySolvable(calls[k].ring, turn - 1)
                      /\ Len(result.value.moves) = turn
                      /\ Head(result.value.moves) = calls[k].movement
                      /\ Some([result.value EXCEPT !.moves = <<>>])
                            = get_solution(Replay(calls[k].ring,
                                                  Tail(result.value.moves)))
                 ELSE /\ k = Len(CallSlots(ring, 0))
                      /\ k >= 1 => ~ExactlySolvable(calls[k].ring, turn - 1)

\* A row move was accepted after rings and rows had been refused in more
\* than one round.
C12_Witness ==
    /\ AtTurnReturned
    /\ result.some
    /\ Len(log.value) >= 10
    /\ Head(result.value.moves).type = "row"
    /\ Head(result.value.moves).amount >= 2

\* The boards among the first n calls of the log.
LoggedBoards(n) ==
    {log.value[j].ring : j \in {i \in 1..n : i <= Len(log.value)}}

\* How many calls the first 8 rounds make on the board b.
CallsOfRowRounds(b) ==
    8 * (Cardinality({r \in 0..3 : NonemptyRing(b, r)})
           + Cardinality({th \in 0..5 : NonemptyRow(b, th)}))

\* C13: a run of iterate_movements in which the callback never accepts
\* covers every single move: for every ring with an enemy and every k in
\* 1..11 the board with that ring turned left by k was passed to the
\* callback, and for every row with an enemy and every k in 1..7 the board
\* with that row shifted by k was passed within the first 8 rounds.
C13_EveryMoveTried ==
    (AtTurnReturned /\ turn > 0 /\ ~result.some) =>
        /\ \A r \in 0..3 :
              NonemptyRing(ring, r) =>
                  \A k \in 1..11 :
                      TurnRing(ring, r, k) \in LoggedBoards(Len(log.value))
        /\ \A th \in 0..5 :
              NonemptyRow(ring, th) =>
                  \A k \in 1..7 :
                      ShiftRow(ring, th, k)
                          \in LoggedBoards(CallsOfRowRounds(ring))

\* All 12 rounds were run without an acceptance on a board with enemies in
\* two rings and two rows at least.
C13_Witness ==
    /\ AtTurnReturned
    /\ turn > 0
    /\ ~result.some
    /\ Len(log.value) >= 2 * 12 + 2 * 8
    /\ Cardinality({r \in 0..3 : NonemptyRing(ring, r)}) >= 2
    /\ Cardinality({th \in 0..5 : NonemptyRow(ring, th)}) >= 2

(***************************************************************************)
(* The hammer count of the terminal evaluator, under SpecEval.             *)
(***************************************************************************)
\* The angles at which the 16-bit value v has a bit set.
AnglesOf(v) == {a \in 0..(U16_BITS - 1) : TestBit(v, a)}

\* C14: hammerable_groups treats the 12 angles as a circle: it is the sum,
\* over the maximal runs of consecutive inner-only angles with angle 11 next
\* to angle 0, of ceil(run length / 2), and 6 when all 12 angles are
\* inner-only; the mask the loop starts from is the inner-only mask turned
\* around the circle, with bit 0 clear unless all 12 bits are set.
C14_HammerGroupsCircular ==
    pc = "evaluated" =>
        LET S == InnerAngles(ev.ring)
            v == ev.locals.value
        IN  /\ v.hammerable_groups = HammersFor(S)
            /\ TestBit(v.inner, 0) => S = 0..11
            /\ \E k \in 0..11 : AnglesOf(v.inner) = {(a + k) % 12 : a \in S}
            /\ ev.sol.some => ev.sol.value.hammerable_groups = HammersFor(S)

\* A run over angles 11 and 0 took one hammer, and an angle on its own took
\* another.
C14_Witness ==
    /\ pc = "evaluated"
    /\ {0, 11} \subseteq InnerAngles(ev.ring)
    /\ \E a \in 2..9 : {a - 1, a, a + 1} \cap InnerAngles(ev.ring) = {a}
    /\ Cardinality(InnerAngles(ev.ring)) = 3
    /\ ev.locals.value.hammerable_groups = 2

(***************************************************************************)
(* What a step of a generator does to the board.                           *)
(***************************************************************************)
\* The generator a call of iterate_movements has stepped last, while the
\* callback it called with the generator's board has not returned None.
Stepped(f) == IF f.phase = "rot" THEN f.rotators[f.i] ELSE f.shifters[f.i]

\* The board the generator stepped last in f yielded is the board f was
\* called with, with one move applied: in round n its ring turned, or its
\* row shifted, by the (n+1)-th zig-zag offset, and no other cell changed.
OneMoveApplied(f) ==
    LET g == Stepped(f)
        off == ZigZagOffset(f.n + 1)
    IN  IF f.phase = "rot"
        THEN /\ g.ring = TurnRing(f.ring, g.r, off)
             /\ \A r \in 0..3 : r # g.r => g.ring[r] = f.ring[r]
        ELSE /\ g.ring = ShiftRow(f.ring, g.th, off)
             /\ \A r \in 0..3 : \A a \in 0..11 :
                   a \notin {g.th, g.th + 6}
                       => (Enemy(g.ring, r, a) <=> Enemy(f.ring, r, a))

\* The boards of the callers are what they were.
CallersKeepBoards ==
    /\ ring' = ring
    /\ \A i \in 1..Len(stack) :
          i <= Len(stack') => stack'[i].ring = stack[i].ring

\* C15: a step of a generator yields the seed board with exactly one move
\* applied: the k-th step of a ring generator yields the board whose
\* subring r is the seed's turned by the k-th zig-zag offset, the others as
\* in the seed; the k-th step of a row generator yields a board that
\* differs from the seed at angles th and th + 6 only, its row being the
\* seed's shifted by the k-th offset; that board is the one the callback
\* gets, and the board the caller holds is never modified.
C15_OneMoveNothingElse ==
    /\ [](\A i \in 1..Len(stack) :
             /\ stack[i].ring = IF i = 1 THEN ring ELSE Stepped(stack[i - 1]).ring
             /\ stack[i].movement.some => OneMoveApplied(stack[i]))
    /\ [][CallersKeepBoards]_vars

\* The rows of angles 2 and 3 are being shifted in a round after the third,
\* the one at the other side of a ring turn.
C15_Witness ==
    /\ Len(stack) = 1
    /\ Top.movement.some
    /\ Top.phase = "shift"
    /\ Top.n >= 3
    /\ Stepped(Top).th \in {2, 3}
    /\ Cardinality({c \in Cells : Enemy(ring, c[1], c[2])}) >= 3

(***************************************************************************)
(* Conservation of the enemies, under Spec.                                *)
(***************************************************************************)
\* The number of bits set in the four subrings of b.
SetBits(b) ==
    Cardinality({c \in (0..3) \X (0..(U16_BITS - 1)) : TestBit(b[c[1]], c[2])})

\* C16: moves conserve enemies: the board of every call at every depth,
\* every board a generator yields, and the result board of every Solution
\* returned, has as many bits set as the input board.
C16_EnemiesConserved ==
    LET n == SetBits(ring)
    IN  /\ \A i \in 1..Len(stack) :
              /\ SetBits(stack[i].ring) = n
              /\ stack[i].movement.some => SetBits(Stepped(stack[i]).ring) = n
        /\ ret.some => SetBits(ret.value.result) = n
        /\ result.some => SetBits(result.value.result) = n

\* A solution of two moves, a row shift among them, was returned for a board
\* of four enemies or more.
C16_Witness ==
    /\ Returned
    /\ result.some
    /\ Len(result.value.moves) = 2
    /\ \E j \in 1..2 : result.value.moves[j].type = "row"
    /\ SetBits(ring) >= 4

(***************************************************************************)
(* The moves of a returned solution, under Spec.                           *)
(***************************************************************************)
\* C17: a Solution find_solution returns has no wasted move and no move in
\* the second of two equivalent directions: replayed from the input board,
\* every move changes the board, no Ring move has amount 6 with clockwise
\* false and no Row move has amount 4 with outward false.
C17_NoWastedMove ==
    (Returned /\ result.some) =>
        LET moves == result.value.moves
        IN  \A j \in 1..Len(moves) :
                LET before == Replay(ring, SubSeq(moves, 1, j - 1))
                    mv == moves[j]
                IN  /\ ApplyMove(before, mv) # before
                    /\ ~(mv.type = "ring" /\ mv.amount = 6 /\ ~mv.clockwise)
                    /\ ~(mv.type = "row" /\ mv.amount = 4 /\ ~mv.outward)

\* A solution whose only move is a half turn of a ring was returned.
C17_Witness ==
    /\ Returned
    /\ result.some
    /\ result.value.moves = <<RingMove(0, 6, TRUE)>>

(***************************************************************************)
(* Termination and the bounds of the search, under SpecCalls.  The program *)
(* is one thread, so it returns if it is never stuck before it is done and *)
(* every step moves it forward in a bounded order of positions.            *)
(***************************************************************************)
\* Where a call of iterate_movements is: round, loop, generator, and whether
\* the callback is running.
FramePosition(f) ==
    <<f.n, IF f.phase = "rot" THEN 0 ELSE 1, f.i, IF f.movement.some THEN 1 ELSE 0>>

RECURSIVE FramePositions(_)
FramePositions(i) ==
    IF i > Len(stack) THEN <<>>
    ELSE FramePosition(stack[i]) \o FramePositions(i + 1)

\* Where the program is: the turn of find_solution's loop, whether the call
\* of that turn is still to make, running or over, the positions of the
\* nested calls, outermost first, and 13 when the innermost has just returned.
Position ==
    <<turn,
      IF pc = "done" THEN 2
      ELSE IF pc \in {"find_solution", "find_solution_at_turn"} THEN 0 ELSE 1>>
        \o FramePositions(1)
        \o <<IF pc = "return" THEN 13 ELSE 0>>

\* p comes before q: at the first place they differ, p is smaller.
Before(p, q) ==
    \E j \in 1..Len(p) :
        /\ j <= Len(q)
        /\ p[j] < q[j]
        /\ \A m \in 1..(j - 1) : p[m] = q[m]

\* The program has a step to take: it is at the head or the return of
\* find_solution's loop or of the call made on its own, at the return of a
\* callback, or in a loop of iterate_movements.
CanStep ==
    \/ pc \in {"find_solution", "find_solution_at_turn", "return"}
    \/ /\ pc = "iterate_movements"
       /\ stack # <<>>
       /\ Top.n \in 0..12
       /\ Top.phase \in {"rot", "shift"}
       /\ Top.phase = "shift" => Top.n < 12
       /\ Top.i \in 1..(1 + Len(IF Top.phase = "rot" THEN Top.rotators
                                                     ELSE Top.shifters))

\* The board get_solution was called with last, when it has just returned.
LastEvaluated == IF stack = <<>> THEN ring ELSE Stepped(Top).ring

\* C18: the search terminates and its resources are bounded: find_solution
\* (and find_solution_at_turn) returns, as the program is never stuck
\* before it is done and every step takes it to a later one of finitely
\* many positions; the calls of find_solution_at_turn nest at most
\* max_turns + 1 deep, the one with turn 0 included, their turn argument
\* going down by one per level; a run of iterate_movements calls the
\* callback at most 12 * 4 + 8 * 6 times; and the hammer loop ends after at
\* most 12 iterations.
C18_TerminatesBounded ==
    /\ [](/\ pc # "done" => CanStep
          /\ Len(Position) <= 3 + 4 * max_turns
          /\ \A j \in 1..Len(Position) : Position[j] \in 0..13
          /\ Len(stack) + 1 <= max_turns + 1
          /\ \A i \in 1..Len(stack) :
                stack[i].turn = turn - (i - 1) /\ stack[i].turn >= 1
          /\ log.some => Len(log.value) <= 12 * 4 + 8 * 6
          /\ pc = "return" =>
                get_solution_locals(LastEvaluated).hammerable_groups <= 12)
    /\ [][Before(Position, Position')]_vars

\* A run of iterate_movements that made all its calls has returned.
C18_Witness ==
    /\ AtTurnReturned
    /\ ~result.some
    /\ Len(log.value) = 12 * 4 + 8 * 6

=============================================================================
